---- MODULE Spec2Model ----
(***************************************************************************)
(* A model of the climate-vulnerability map front end:                     *)
(*   - CCVIApiService (src/src/services/ccviApi.ts): getCCVIData,          *)
(*     transformApiData, normalizeVulnerabilityScore, getMockData;         *)
(*   - ClimateMap (src/unnamed/part_002): initializeMap, loadClimateData,  *)
(*     getIndicatorValue, getColorForIndicator and the two effects;        *)
(*   - Index (src/src/pages/Index.tsx): the selected boundary/indicator.   *)
(*                                                                         *)
(* JavaScript numbers are carried in fixed point: a number n stands for    *)
(* n / One.  Every input the model draws is chosen so that the divisions   *)
(* the code performs are exact in that representation.                     *)
(***************************************************************************)
EXTENDS Integers, Sequences, FiniteSets, TLC

\* The fixed-point unit: the number x is carried as x * One (two decimals).
One == 10 * 10

Range(f) == {f[i] : i \in DOMAIN f}

(***************************************************************************)
(* JavaScript values, as far as the code looks at them.                    *)
(***************************************************************************)
Undefined == [t |-> "undefined", n |-> 0, s |-> ""]
Null      == [t |-> "null",      n |-> 0, s |-> ""]
NaN       == [t |-> "NaN",       n |-> 0, s |-> ""]
\* the number x / One
Num(x)    == [t |-> "number",    n |-> x, s |-> ""]
\* a string that is no numeral
Str(x)    == [t |-> "string",    n |-> 0, s |-> x]
\* the string that spells the number x / One, e.g. "0.5"
NumStr(x) == [t |-> "numstring", n |-> x, s |-> ""]

\* JavaScript truthiness, as `a || b` tests it.
Truthy(v) ==
    CASE v.t = "number"    -> v.n # 0
      [] v.t = "string"    -> v.s # ""
      [] v.t = "numstring" -> TRUE
      [] OTHER             -> FALSE

\* a || b
Or(a, b) == IF Truthy(a) THEN a ELSE b

\* parseFloat(v): a number stays, a numeral string becomes its number,
\* everything else (null, undefined, other strings) is NaN.
ParseFloat(v) ==
    CASE v.t = "number"    -> v
      [] v.t = "numstring" -> Num(v.n)
      [] OTHER             -> NaN

IsNaN(v) == v.t = "NaN"

(***************************************************************************)
(* Math.random(): a value of [0, 1).  A run draws its values from one of a *)
(* bounded family of streams, chosen by seed; draw i of stream seed.       *)
(***************************************************************************)
MaxSeed == 1
Seeds == 0..MaxSeed
RandomValues == << 0, 42, 99 >>
Rand(seed, i) == RandomValues[((seed + i) % Len(RandomValues)) + 1]

(***************************************************************************)
(* CCVIApiService.normalizeVulnerabilityScore                              *)
(***************************************************************************)
possibleFields ==
    << "vulnerability_score", "ccvi_score", "vulnerability", "score",
       "exposure", "sensitivity", "adaptive_capacity",
       "VULNERABILITY_SCORE", "CCVI_SCORE", "VULNERABILITY", "SCORE",
       "EXPOSURE", "SENSITIVITY", "ADAPTIVE_CAPACITY" >>

\* The property names the model follows; "code" stands for a property the
\* code does not know.
IdentityKeys ==
    { "id", "ID", "name", "NAME", "DISTRICT",
      "population", "POPULATION", "area", "AREA", "code" }
Keys == IdentityKeys \cup Range(possibleFields)

\* A properties object: every key of Keys, Undefined where it is absent.
NoProperties == [k \in Keys |-> Undefined]

\* ScaleScore with the division left out.
ScaleScore_Unscaled(score) == score

\* score > 1 ? score / 100 : score
ScaleScore(score) == IF score.n > One THEN Num(score.n \div 100) ELSE score

RECURSIVE ScanFields(_, _, _)
ScanFields(properties, i, rnd) ==
    IF i > Len(possibleFields)
    THEN Num(rnd)                              \* return Math.random()
    ELSE LET v     == properties[possibleFields[i]]
             score == ParseFloat(v)
         IN  IF v.t # "undefined" /\ v.t # "null" /\ ~IsNaN(score)
             THEN ScaleScore(score)
             ELSE ScanFields(properties, i + 1, rnd)

normalizeVulnerabilityScore(properties, rnd) == ScanFields(properties, 1, rnd)

(***************************************************************************)
(* CCVIApiService.getMockData                                              *)
(***************************************************************************)
\* Coordinates are carried in units of 0.0001 degree.
pakistanRegions ==
    << [name |-> "Punjab",             center |-> <<743587, 315204>>,
        vulnerability |-> 70, exposure |-> 80, sensitivity |-> 60, adaptive_capacity |-> 40],
       [name |-> "Sindh",              center |-> <<688242, 258943>>,
        vulnerability |-> 80, exposure |-> 90, sensitivity |-> 70, adaptive_capacity |-> 30],
       [name |-> "Khyber Pakhtunkhwa", center |-> <<714696, 340151>>,
        vulnerability |-> 60, exposure |-> 70, sensitivity |-> 50, adaptive_capacity |-> 50],
       [name |-> "Balochistan",        center |-> <<669756, 283949>>,
        vulnerability |-> 90, exposure |-> 95, sensitivity |-> 80, adaptive_capacity |-> 20],
       [name |-> "Gilgit-Baltistan",   center |-> <<744641, 359042>>,
        vulnerability |-> 40, exposure |-> 50, sensitivity |-> 40, adaptive_capacity |-> 70],
       [name |-> "Azad Kashmir",       center |-> <<734548, 336844>>,
        vulnerability |-> 50, exposure |-> 60, sensitivity |-> 40, adaptive_capacity |-> 60] >>

\* `region_${index}`, index from 0
regionIds ==
    << "region_0", "region_1", "region_2", "region_3", "region_4", "region_5" >>

\* const size = 1.5, in units of 0.0001 degree
size == 15000

\* Math.floor(x) of the number x
MathFloor(x) == (x \div One) * One

mockFeature(index, seed) ==
    LET region == pakistanRegions[index]
        cx == region.center[1]
        cy == region.center[2]
        given ==
            [k \in Keys |->
                CASE k = "id"                  -> Str(regionIds[index])
                  [] k = "name"                -> Str(region.name)
                  [] k = "vulnerability_score" -> Num(region.vulnerability)
                  [] k = "exposure"            -> Num(region.exposure)
                  [] k = "sensitivity"         -> Num(region.sensitivity)
                  [] k = "adaptive_capacity"   -> Num(region.adaptive_capacity)
                  [] k = "population" ->
                        Num(MathFloor(Rand(seed, 2 * index - 1) * 10000000)
                            + 1000000 * One)
                  [] k = "area" ->
                        Num(MathFloor(Rand(seed, 2 * index) * 100000)
                            + 10000 * One)
                  [] OTHER -> Undefined]
    IN  [type |-> "Feature",
         properties |-> given,
         geometry |->
            [type |-> "Polygon",
             coordinates |->
                << <<cx - size, cy - size>>,
                   <<cx + size, cy - size>>,
                   <<cx + size, cy + size>>,
                   <<cx - size, cy + size>>,
                   <<cx - size, cy - size>> >>]]

\* getMockData with the last region left out.
getMockData_Five(seed) ==
    [type |-> "FeatureCollection",
     features |-> [i \in 1..(Len(pakistanRegions) - 1) |-> mockFeature(i, seed)]]

getMockData(seed) ==
    [type |-> "FeatureCollection",
     features |-> [i \in 1..Len(pakistanRegions) |-> mockFeature(i, seed)]]

(***************************************************************************)
(* CCVIApiService.transformApiData                                         *)
(***************************************************************************)
\* `feature_${Math.random()}`: the string "feature_" followed by the numeral
Placeholder(rnd) == [t |-> "string", n |-> rnd, s |-> "feature_"]

\* The object literal without the spread of feature.properties.
transformFeature_NoSpread(feature, rid, rscore) ==
    LET p == feature.properties IN
    [type |-> "Feature",
     properties |->
        [k \in Keys |->
            CASE k = "id"   -> Or(Or(p["id"], p["ID"]), Placeholder(rid))
              [] k = "name" ->
                    Or(Or(Or(p["name"], p["NAME"]), p["DISTRICT"]),
                       Str("Unknown Area"))
              [] k = "vulnerability_score" ->
                    normalizeVulnerabilityScore(p, rscore)
              [] k = "population" -> Or(p["population"], p["POPULATION"])
              [] k = "area"       -> Or(p["area"], p["AREA"])
              [] OTHER            -> Undefined],
     geometry |-> feature.geometry]

\* One element of apiData.features.map(...): the object literal of lines
\* 98-108.  The spread of feature.properties comes last, so a key the raw
\* properties carry replaces the computed one.
transformFeature(feature, rid, rscore) ==
    LET p == feature.properties
        computed ==
            [k \in Keys |->
                CASE k = "id"   -> Or(Or(p["id"], p["ID"]), Placeholder(rid))
                  [] k = "name" ->
                        Or(Or(Or(p["name"], p["NAME"]), p["DISTRICT"]),
                           Str("Unknown Area"))
                  [] k = "vulnerability_score" ->
                        normalizeVulnerabilityScore(p, rscore)
                  [] k = "population" -> Or(p["population"], p["POPULATION"])
                  [] k = "area"       -> Or(p["area"], p["AREA"])
                  [] OTHER            -> Undefined]
    IN  [type |-> "Feature",
         properties |->
            [k \in Keys |-> IF p[k].t # "undefined" THEN p[k] ELSE computed[k]],
         geometry |-> feature.geometry]

EmptyCollection == [type |-> "FeatureCollection", features |-> << >>]

\* The outcome of a synchronous call: a value, or an exception thrown.
Return(v) == [threw |-> FALSE, value |-> v]
Throw     == [threw |-> TRUE,  value |-> EmptyCollection]

\* apiData is the parsed body:
\*   kind      "null" | "primitive" | "object"
\*   type      its "type" member ("" when it has none)
\*   features  its "features" member: kind "absent" | "null" | "list" |
\*             "string" (non-empty) | "object", and the items of a list
transformApiData(apiData, seed) ==
    IF apiData.kind = "null"
    THEN Throw                                 \* apiData.type of null
    ELSE IF /\ apiData.kind = "object"
            /\ apiData.type = "FeatureCollection"
            /\ apiData.features.kind \in {"list", "string", "object"}
         THEN IF apiData.features.kind # "list"
              THEN Throw                       \* features.map is no function
              ELSE LET items == apiData.features.items IN
                   IF \E i \in 1..Len(items) : ~items[i].hasProperties
                   THEN Throw                  \* feature.properties.id
                   ELSE Return(
                          [type |-> "FeatureCollection",
                           features |->
                              [i \in 1..Len(items) |->
                                  transformFeature(items[i],
                                                   Rand(seed, 2 * i - 1),
                                                   Rand(seed, 2 * i))]])
         ELSE Return(getMockData(seed))

(***************************************************************************)
(* CCVIApiService.getCCVIData                                              *)
(***************************************************************************)
\* What the transport does with the request:
\*   net   "ok" | "throw"      fetch resolves, or rejects
\*   ok    response.ok
\*   json  "ok" | "throw"      response.json() resolves, or rejects
\*   body  the parsed body
\* The body of the try block: the value returned, or an exception.
tryFetch(resp, seed) ==
    IF resp.net = "throw" THEN Throw
    ELSE IF ~resp.ok THEN Throw                \* throw new Error(...)
    ELSE IF resp.json = "throw" THEN Throw
    ELSE transformApiData(resp.body, seed)

Fulfilled(v) == [settled |-> "fulfilled", value |-> v]
Rejected     == [settled |-> "rejected",  value |-> EmptyCollection]
Pending      == [settled |-> "pending",   value |-> EmptyCollection]

\* getCCVIData with the transformation outside the try block.
getCCVIData_Uncaught(resp, seed) ==
    LET tried == tryFetch(resp, seed) IN
    IF ~tried.threw THEN Fulfilled(tried.value)
    ELSE IF resp.net = "ok" /\ resp.ok /\ resp.json = "ok" THEN Rejected
    ELSE Fulfilled(getMockData(seed))

\* try { ... } catch (error) { return this.getMockData(); }
getCCVIData(resp, seed) ==
    LET tried == tryFetch(resp, seed) IN
    IF tried.threw THEN Fulfilled(getMockData(seed)) ELSE Fulfilled(tried.value)

(***************************************************************************)
(* The inputs the checks draw: what the transport may answer.              *)
(***************************************************************************)
\* Bounds of the inputs.
MaxPresent  == 2      \* properties present on a drawn raw feature
MaxFeatures == 2      \* features of a drawn feature list
MaxApply    == 2      \* successive applications of the normalization

\* Values a raw score field may hold: null, 0, 0.3, 1, 75, 200, -0.5, a
\* string that is no number and the string "0.5".
ScoreValues ==
    { Null, Num(0), Num(30), Num(One), Num(75 * One), Num(200 * One),
      Num(-50), Str("n/a"), NumStr(50) }

\* Values the other raw properties may hold.
IdentityValues == { Null, Num(0), Str(""), Str("r1"), Num(5 * One) }

PartialProps(keys, values) ==
    UNION { [S -> values] :
              S \in {T \in SUBSET keys : Cardinality(T) <= MaxPresent} }

TotalProps(g) == [k \in Keys |-> IF k \in DOMAIN g THEN g[k] ELSE Undefined]

ScoreProps    == { TotalProps(g) : g \in PartialProps(Range(possibleFields), ScoreValues) }
IdentityProps == { TotalProps(g) : g \in PartialProps(IdentityKeys, IdentityValues) }

\* The end-to-end scenario: {ID: 'r1', NAME: 'Test Region', SCORE: 75}
e2eProps ==
    [NoProperties EXCEPT !["ID"] = Str("r1"), !["NAME"] = Str("Test Region"),
                         !["SCORE"] = Num(75 * One)]

\* [[[0,0],[1,0],[1,1],[0,1],[0,0]]]
unitSquare ==
    [type |-> "Polygon",
     coordinates |-> << <<0, 0>>, <<10000, 0>>, <<10000, 10000>>,
                        <<0, 10000>>, <<0, 0>> >>]
multiSquare == [type |-> "MultiPolygon", coordinates |-> unitSquare.coordinates]
pointGeometry == [type |-> "Point", coordinates |-> << <<0, 0>> >>]
\* geometry: null, or no geometry member
noGeometry == [type |-> "null", coordinates |-> << >>]
RawGeometries == { unitSquare, multiSquare, pointGeometry, noGeometry }

RawFeature(p, g) == [hasProperties |-> TRUE, properties |-> p, geometry |-> g]
\* a feature with no properties member
bareFeature == [hasProperties |-> FALSE, properties |-> NoProperties, geometry |-> unitSquare]
e2eFeature == RawFeature(e2eProps, unitSquare)

WideFeatures ==
    { RawFeature(p, unitSquare) : p \in ScoreProps \cup IdentityProps \cup {e2eProps} }

SmallProps ==
    { e2eProps, NoProperties,
      [NoProperties EXCEPT !["id"] = Str("r2"), !["vulnerability_score"] = Num(30)] }
SmallFeatures ==
    { RawFeature(p, g) : p \in SmallProps, g \in RawGeometries } \cup { bareFeature }

FeatureLists ==
    { << >> } \cup { << f >> : f \in WideFeatures \cup SmallFeatures }
    \cup UNION { [1..n -> SmallFeatures] : n \in 2..MaxFeatures }

Body(kind, type, fkind, items) ==
    [kind |-> kind, type |-> type, features |-> [kind |-> fkind, items |-> items]]

e2eBody == Body("object", "FeatureCollection", "list", << e2eFeature >>)

\* Bodies that are no feature collection with a list of features.
OddBodies ==
    { Body("null", "", "absent", << >>),
      Body("primitive", "", "absent", << >>),
      Body("object", "", "absent", << >>),
      Body("object", "Feature", "list", << e2eFeature >>),
      Body("object", "FeatureCollection", "absent", << >>),
      Body("object", "FeatureCollection", "null", << >>),
      Body("object", "FeatureCollection", "string", << >>),
      Body("object", "FeatureCollection", "object", << >>) }

ListBodies == { Body("object", "FeatureCollection", "list", l) : l \in FeatureLists }

Response(net, ok, json, body) == [net |-> net, ok |-> ok, json |-> json, body |-> body]

e2eResponse == Response("ok", TRUE, "ok", e2eBody)

\* fetch rejects; a non-success status; a body that is no JSON.
FailedResponses ==
    { Response("throw", FALSE, "throw", e2eBody),
      Response("ok", FALSE, "ok", e2eBody),
      Response("ok", TRUE, "throw", e2eBody) }

Responses ==
    FailedResponses \cup { Response("ok", TRUE, "ok", b) : b \in OddBodies \cup ListBodies }

(***************************************************************************)
(* CCVIApiService.getBoundaryTypes and CCVIApiService.getIndicators        *)
(***************************************************************************)
\* An option list is carried as the ids of its options, in order; a parsed
\* body is a list of options, null or some other object.
Catalog(kind, ids) == [kind |-> kind, items |-> ids]
NoCatalog == Catalog("none", << >>)

CatalogPending  == [settled |-> "pending",  value |-> NoCatalog]
CatalogRejected == [settled |-> "rejected", value |-> NoCatalog]

\* Whether the try block of either method throws: fetch rejects, the
\* status is no success, or response.json() rejects (and is awaited).
catalogFetchThrows(resp) ==
    resp.net = "throw" \/ ~resp.ok \/ resp.json = "throw"

\* The built-in boundary catalog (lines 45-49).
builtinBoundaries == << "district", "tehsil", "union_council" >>

\* getBoundaryTypes with `return response.json()`: the parse failure is
\* not awaited inside the try block.
getBoundaryTypes_NoAwait(resp) ==
    IF resp.net = "throw" \/ ~resp.ok
    THEN Fulfilled(Catalog("list", builtinBoundaries))
    ELSE IF resp.json = "throw" THEN CatalogRejected
    ELSE Fulfilled(resp.body)

getBoundaryTypes(resp) ==
    IF catalogFetchThrows(resp)
    THEN Fulfilled(Catalog("list", builtinBoundaries))
    ELSE Fulfilled(resp.body)

\* The built-in indicator catalog (lines 62-70).
builtinIndicators ==
    << "climate_vulnerability", "exposure", "sensitivity", "adaptive_capacity",
       "heat_stress", "drought_risk", "flood_risk" >>

\* getIndicators with a built-in catalog that lacks the three components.
getIndicators_Older(resp) ==
    IF catalogFetchThrows(resp)
    THEN Fulfilled(Catalog("list", << "climate_vulnerability", "heat_stress",
                                      "drought_risk", "flood_risk" >>))
    ELSE Fulfilled(resp.body)

getIndicators(resp) ==
    IF catalogFetchThrows(resp)
    THEN Fulfilled(Catalog("list", builtinIndicators))
    ELSE Fulfilled(resp.body)

\* What the transport may answer the two catalog requests.
MaxOptions == 2     \* options of a drawn option list
OptionIds == { "district", "province", "climate_vulnerability" }
CatalogBodies ==
    { Catalog("null", << >>), Catalog("object", << >>) }
    \cup { Catalog("list", l) :
             l \in UNION { [1..n -> OptionIds] : n \in 0..MaxOptions } }
CatalogResponses ==
    { Response("throw", FALSE, "throw", Catalog("null", << >>)),
      Response("ok", FALSE, "ok", Catalog("list", << "province" >>)),
      Response("ok", TRUE, "throw", Catalog("null", << >>)) }
    \cup { Response("ok", TRUE, "ok", b) : b \in CatalogBodies }

(***************************************************************************)
(* ClimateMap.getIndicatorValue and ClimateMap.getColorForIndicator        *)
(***************************************************************************)
\* 1 - v, with JavaScript's conversion of v to a number
OneMinus(v) ==
    CASE v.t = "number"    -> Num(One - v.n)
      [] v.t = "numstring" -> Num(One - v.n)
      [] OTHER             -> NaN

getIndicatorValue(properties, indicator) ==
    CASE indicator = "exposure" ->
            Or(Or(properties["exposure"], properties["vulnerability_score"]), Num(0))
      [] indicator = "sensitivity" ->
            Or(Or(properties["sensitivity"], properties["vulnerability_score"]), Num(0))
      [] indicator = "adaptive_capacity" ->
            Or(properties["adaptive_capacity"],
               OneMinus(Or(properties["vulnerability_score"], Num(0))))
      [] OTHER ->
            Or(properties["vulnerability_score"], Num(0))

\* Gt with >= for >.
Gt_Inclusive(value, x) ==
    CASE value.t = "number"    -> value.n >= x
      [] value.t = "numstring" -> value.n >= x
      [] OTHER                 -> FALSE

\* value > x, x in fixed point: false for NaN and for what converts to NaN
Gt(value, x) ==
    CASE value.t = "number"    -> value.n > x
      [] value.t = "numstring" -> value.n > x
      [] OTHER                 -> FALSE

getColorForIndicator(value, indicator) ==
    CASE indicator = "exposure" ->
            IF Gt(value, 80) THEN "#dc2626"
            ELSE IF Gt(value, 60) THEN "#f97316"
            ELSE IF Gt(value, 40) THEN "#eab308"
            ELSE IF Gt(value, 20) THEN "#3b82f6"
            ELSE "#1e40af"
      [] indicator = "sensitivity" ->
            IF Gt(value, 80) THEN "#dc2626"
            ELSE IF Gt(value, 60) THEN "#f97316"
            ELSE IF Gt(value, 40) THEN "#eab308"
            ELSE IF Gt(value, 20) THEN "#8b5cf6"
            ELSE "#6366f1"
      [] indicator = "adaptive_capacity" ->
            IF Gt(value, 80) THEN "#22c55e"
            ELSE IF Gt(value, 60) THEN "#84cc16"
            ELSE IF Gt(value, 40) THEN "#eab308"
            ELSE IF Gt(value, 20) THEN "#f97316"
            ELSE "#dc2626"
      [] OTHER ->
            IF Gt(value, 80) THEN "#ef4444"
            ELSE IF Gt(value, 60) THEN "#f97316"
            ELSE IF Gt(value, 40) THEN "#eab308"
            ELSE IF Gt(value, 20) THEN "#84cc16"
            ELSE "#22c55e"

\* The style option of L.geoJSON (lines 102-113); indicatorValue is the
\* local of that name.
featureStyle(properties, indicator) ==
    LET indicatorValue == getIndicatorValue(properties, indicator) IN
    [indicatorValue |-> indicatorValue,
     fillColor   |-> getColorForIndicator(indicatorValue, indicator),
     weight      |-> 2,
     opacity     |-> One,
     color       |-> "white",
     fillOpacity |-> 70]

NoStyle ==
    [indicatorValue |-> Undefined, fillColor |-> "", weight |-> 0,
     opacity |-> 0, color |-> "", fillOpacity |-> 0]

\* One entry of a legend.
LegendEntry(color, label) == [color |-> color, label |-> label]

\* The entry `default` of legends (lines 201-207).
defaultLegend ==
    << LegendEntry("#22c55e", "Very Low (0-20%)"),
       LegendEntry("#84cc16", "Low (20-40%)"),
       LegendEntry("#eab308", "Medium (40-60%)"),
       LegendEntry("#f97316", "High (60-80%)"),
       LegendEntry("#ef4444", "Very High (80-100%)") >>

\* getLegendForIndicator with the default legend for every indicator.
getLegendForIndicator_DefaultOnly(indicator) == defaultLegend

\* legends[indicator] || legends.default
getLegendForIndicator(indicator) ==
    CASE indicator = "exposure" ->
            << LegendEntry("#1e40af", "Very Low (0-20%)"),
               LegendEntry("#3b82f6", "Low (20-40%)"),
               LegendEntry("#eab308", "Medium (40-60%)"),
               LegendEntry("#f97316", "High (60-80%)"),
               LegendEntry("#dc2626", "Very High (80-100%)") >>
      [] indicator = "sensitivity" ->
            << LegendEntry("#6366f1", "Very Low (0-20%)"),
               LegendEntry("#8b5cf6", "Low (20-40%)"),
               LegendEntry("#eab308", "Medium (40-60%)"),
               LegendEntry("#f97316", "High (60-80%)"),
               LegendEntry("#dc2626", "Very High (80-100%)") >>
      [] indicator = "adaptive_capacity" ->
            << LegendEntry("#dc2626", "Very Low (0-20%)"),
               LegendEntry("#f97316", "Low (20-40%)"),
               LegendEntry("#eab308", "Medium (40-60%)"),
               LegendEntry("#84cc16", "High (60-80%)"),
               LegendEntry("#22c55e", "Very High (80-100%)") >>
      [] OTHER -> defaultLegend

\* The indicators of the built-in catalog (getIndicators, lines 62-70).
Indicators ==
    { "climate_vulnerability", "exposure", "sensitivity", "adaptive_capacity",
      "heat_stress", "drought_risk", "flood_risk" }

\* The inputs drawn for the style function: a vulnerability score and the
\* three components, each absent or a number.
GridValues == { Num(i * 10) : i \in 0..10 }
ComponentValues == { Undefined, Num(0), Num(20), Num(50), Num(90) }
StyleProps ==
    { [NoProperties EXCEPT !["vulnerability_score"] = v, !["exposure"] = e,
                           !["sensitivity"] = s, !["adaptive_capacity"] = a] :
        v \in GridValues \cup { Num(200), Num(-50), Str("n/a") },
        e \in ComponentValues, s \in ComponentValues, a \in ComponentValues }

(***************************************************************************)
(* State.                                                                  *)
(***************************************************************************)
VARIABLES
    apiResp,      \* the transport's answer to the call of getCCVIData
    apiSeed,      \* the random stream of the call
    apiResult,    \* the promise getCCVIData returned
    norm,         \* successive results of normalizeVulnerabilityScore
    styleProps,   \* the properties of the feature being styled
    styleIndicator, \* the indicator it is styled for
    styleOut,     \* what the style function returned
    currentLegend, \* the legend of the render, << >> before it
    mounted,      \* the page: "no" | "effects" (the reload effect of the mount
                  \* has run) | "yes" | "gone"
    mapCurrent,   \* map.current: 0 (null) or 1 (the map surface)
    tileLayers,   \* base tile layers on the map surface
    mapLayers,    \* data layers on the map surface, by the cycle that made them
    dataLayer,    \* dataLayer.current: 0 (null) or the cycle that made the layer
    layers,       \* the data layers made so far, by cycle
    cycles,       \* the load cycles started so far
    isLoading,    \* useState(false)
    error,        \* useState(null): "" is null
    selectedBoundary,   \* Index: useState('district')
    selectedIndicator,  \* Index: useState('climate_vulnerability')
    dataLoads,    \* the cycles that called onDataLoad, in order
    fitted,       \* the cycle whose layer the viewport was last fitted to, 0: none
    surfaces,     \* the Leaflet maps the container holds
    initCalls,    \* invocations of initializeMap so far
    fetches,      \* network requests for features issued so far
    sidebarBoundary,   \* ClimateSidebar: useState('district')
    sidebarIndicator,  \* ClimateSidebar: useState('climate_vulnerability')
    hover,        \* the feature the pointer last entered, its style and popup
    boundariesResp,    \* the transport's answer to getBoundaryTypes
    indicatorsResp,    \* the transport's answer to getIndicators
    boundariesResult,  \* the promise getBoundaryTypes returned
    indicatorsResult   \* the promise getIndicators returned

apiVars == << apiResp, apiSeed, apiResult, norm >>
styleVars == << styleProps, styleIndicator, styleOut, currentLegend >>
mapVars ==
    << mounted, mapCurrent, tileLayers, mapLayers, dataLayer, layers, cycles,
       isLoading, error, selectedBoundary, selectedIndicator, dataLoads, fitted,
       surfaces, initCalls, fetches, sidebarBoundary, sidebarIndicator, hover >>
catalogVars ==
    << boundariesResp, indicatorsResp, boundariesResult, indicatorsResult >>
vars == << apiVars, styleVars, mapVars, catalogVars >>

\* Each part of the state at rest, for the specifications that leave it alone.
ApiIdle ==
    /\ apiResp = Response("throw", FALSE, "throw", e2eBody)
    /\ apiSeed = 0
    /\ apiResult = Pending
    /\ norm = << >>

StyleIdle ==
    /\ styleProps = NoProperties
    /\ styleIndicator = "climate_vulnerability"
    /\ styleOut = NoStyle
    /\ currentLegend = << >>

\* ClimateMap and Index as constructed, before the effects of the mount run.
MapInit ==
    /\ mounted = "no"
    /\ mapCurrent = 0
    /\ tileLayers = 0
    /\ mapLayers = {}
    /\ dataLayer = 0
    /\ layers = << >>
    /\ cycles = << >>
    /\ isLoading = FALSE
    /\ error = ""
    /\ selectedBoundary = "district"
    /\ selectedIndicator = "climate_vulnerability"
    /\ dataLoads = << >>
    /\ fitted = 0
    /\ surfaces = 0
    /\ initCalls = 0
    /\ fetches = 0
    /\ sidebarBoundary = "district"
    /\ sidebarIndicator = "climate_vulnerability"
    /\ hover = [cycle |-> 0, feature |-> 0, style |-> NoStyle,
                popup |-> FALSE, over |-> FALSE]

CatalogIdle ==
    /\ boundariesResp = Response("throw", FALSE, "throw", Catalog("null", << >>))
    /\ indicatorsResp = Response("throw", FALSE, "throw", Catalog("null", << >>))
    /\ boundariesResult = CatalogPending
    /\ indicatorsResult = CatalogPending

(***************************************************************************)
(* The data provider on its own: one call of getCCVIData against a drawn   *)
(* transport answer, and the normalization applied to what it produced.    *)
(***************************************************************************)
InitApi ==
    /\ apiResp \in Responses
    /\ apiSeed \in Seeds
    /\ apiResult = Pending
    /\ norm = << >>
    /\ StyleIdle
    /\ MapInit
    /\ CatalogIdle

\* The promise of getCCVIData settles.
ApiSettle ==
    /\ apiResult.settled = "pending"
    /\ apiResult' = getCCVIData(apiResp, apiSeed)
    /\ UNCHANGED << apiResp, apiSeed, norm, styleVars, mapVars, catalogVars >>

\* The raw features of the answer, when it is a list of them.
RawItems == apiResp.body.features.items

\* normalizeVulnerabilityScore applied to the raw properties of the first
\* feature of the answer, then to an object holding its previous result.
Normalize ==
    /\ apiResp.body.features.kind = "list"
    /\ Len(RawItems) >= 1
    /\ RawItems[1].hasProperties
    /\ Len(norm) < MaxApply
    /\ LET input == IF norm = << >>
                    THEN RawItems[1].properties
                    ELSE [NoProperties EXCEPT !["vulnerability_score"] = norm[Len(norm)]]
       IN  norm' = Append(norm, normalizeVulnerabilityScore(input, Rand(apiSeed, 2)))
    /\ UNCHANGED << apiResp, apiSeed, apiResult, styleVars, mapVars, catalogVars >>

NextApi == ApiSettle \/ Normalize

SpecApi == InitApi /\ [][NextApi]_vars

(***************************************************************************)
(* The style function on its own: one feature styled for one indicator.    *)
(***************************************************************************)
InitStyle ==
    /\ styleProps \in StyleProps
    /\ styleIndicator \in Indicators
    /\ styleOut = NoStyle
    /\ currentLegend = << >>
    /\ ApiIdle
    /\ MapInit
    /\ CatalogIdle

\* One render for the indicator: the legend is computed (line 213) and the
\* feature styled.
StyleFeature ==
    /\ styleOut = NoStyle
    /\ styleOut' = featureStyle(styleProps, styleIndicator)
    /\ currentLegend' = getLegendForIndicator(styleIndicator)
    /\ UNCHANGED << styleProps, styleIndicator, apiVars, mapVars, catalogVars >>

NextStyle == StyleFeature

SpecStyle == InitStyle /\ [][NextStyle]_vars

(***************************************************************************)
(* The two catalog requests on their own, each against a drawn answer.     *)
(***************************************************************************)
InitCatalog ==
    /\ boundariesResp \in CatalogResponses
    /\ indicatorsResp \in CatalogResponses
    /\ boundariesResult = CatalogPending
    /\ indicatorsResult = CatalogPending
    /\ ApiIdle
    /\ StyleIdle
    /\ MapInit

\* The promise of getBoundaryTypes settles.
BoundaryTypesSettle ==
    /\ boundariesResult.settled = "pending"
    /\ boundariesResult' = getBoundaryTypes(boundariesResp)
    /\ UNCHANGED << boundariesResp, indicatorsResp, indicatorsResult,
                    apiVars, styleVars, mapVars >>

\* The promise of getIndicators settles.
IndicatorsSettle ==
    /\ indicatorsResult.settled = "pending"
    /\ indicatorsResult' = getIndicators(indicatorsResp)
    /\ UNCHANGED << boundariesResp, indicatorsResp, boundariesResult,
                    apiVars, styleVars, mapVars >>

NextCatalog == BoundaryTypesSettle \/ IndicatorsSettle

SpecCatalog == InitCatalog /\ [][NextCatalog]_vars

(***************************************************************************)
(* ClimateMap inside Index: the map surface, its data layer and the load   *)
(* cycles.  Each action is one uninterrupted run of JavaScript: an effect, *)
(* an event handler, or what follows an await once its promise settled.    *)
(***************************************************************************)
MaxCycles == 2      \* load cycles started in a run
MaxInit == 2        \* invocations of initializeMap in a run

\* What the selects offer in the model: two boundaries and one indicator of
\* each colour family.
SelectableBoundaries == { "district", "tehsil" }
SelectableIndicators ==
    { "climate_vulnerability", "exposure", "sensitivity", "adaptive_capacity" }

\* A geometry of a type GeoJSON does not have.
circleGeometry == [type |-> "Circle", coordinates |-> << <<0, 0>> >>]

\* What the transport may answer a load cycle: a network failure, a
\* non-success status, a body of null, the end-to-end collection, a
\* collection without features, a collection with a
\* feature of an unknown geometry type, a collection whose only feature has
\* no geometry.
RenderResponses ==
    { Response("throw", FALSE, "throw", e2eBody),
      e2eResponse,
      Response("ok", FALSE, "ok", e2eBody),
      Response("ok", TRUE, "ok", Body("null", "", "absent", << >>)),
      Response("ok", TRUE, "ok", Body("object", "FeatureCollection", "list", << >>)),
      Response("ok", TRUE, "ok",
               Body("object", "FeatureCollection", "list",
                    << e2eFeature, RawFeature(e2eProps, circleGeometry) >>)),
      Response("ok", TRUE, "ok",
               Body("object", "FeatureCollection", "list",
                    << RawFeature(e2eProps, noGeometry) >>)) }

\* The answer a cycle has while its fetch is pending.
NoResponse == Response("pending", FALSE, "pending", Body("null", "", "absent", << >>))

NoLayer == [cycle |-> 0, boundary |-> "", indicator |-> "", data |-> EmptyCollection]

\* The pointer has entered no feature of the layer on the map.
NoHover ==
    [cycle |-> 0, feature |-> 0, style |-> NoStyle, popup |-> FALSE, over |-> FALSE]

ErrorMessage == "Failed to load climate vulnerability data. Please try again."

(***************************************************************************)
(* Leaflet, as far as ClimateMap calls it.                                 *)
(***************************************************************************)
\* L.map(container) with the check left out.
LMap_Unchecked(live) == [threw |-> FALSE, live |-> live + 1]

\* L.map(mapContainer.current): a container that already holds a map is
\* refused with "Map container is already initialized."; live is the number
\* of maps the container holds.
LMap(live) ==
    IF live > 0
    THEN [threw |-> TRUE, live |-> live]
    ELSE [threw |-> FALSE, live |-> live + 1]

\* map.removeLayer(layer) that removes nothing.
removeLayer_Noop(installed, layer) == installed

\* map.current.removeLayer(dataLayer.current): a layer that is not on the
\* map is ignored.
removeLayer(installed, layer) == installed \ {layer}

\* The geometry types L.geoJSON builds a layer for; a feature without
\* geometry is skipped.
LeafletGeometryTypes ==
    { "Point", "MultiPoint", "LineString", "MultiLineString", "Polygon",
      "MultiPolygon", "null" }

\* L.geoJSON(climateData, ...) throws "Invalid GeoJSON object." for a
\* geometry of any other type.
geoJSONThrows(climateData) ==
    \E i \in 1..Len(climateData.features) :
        climateData.features[i].geometry.type \notin LeafletGeometryTypes

\* dataLayer.current.getBounds() is valid once the layer holds a shape;
\* fitBounds throws "Bounds are not valid." otherwise.
boundsValid(climateData) ==
    \E i \in 1..Len(climateData.features) :
        climateData.features[i].geometry.type # "null"

(***************************************************************************)
(* ClimateMap and Index: the operations.                                   *)
(***************************************************************************)
\* loadClimateData and the reload effect without their test of map.current.
StartLoad_Unguarded(boundary, indicator, surface) ==
    /\ isLoading' = TRUE
    /\ error' = ""
    /\ fetches' = fetches + 1
    /\ cycles' = Append(cycles, [boundary |-> boundary,
                                 indicator |-> indicator,
                                 pc |-> "fetching",
                                 resp |-> NoResponse])
    /\ layers' = Append(layers, NoLayer)

\* loadClimateData that leaves the loading flag alone.
StartLoad_NoFlag(boundary, indicator, surface) ==
    IF surface = 0
    THEN UNCHANGED << cycles, layers, isLoading, error, fetches >>
    ELSE /\ UNCHANGED isLoading
         /\ fetches' = fetches + 1
         /\ error' = ""
         /\ cycles' = Append(cycles, [boundary |-> boundary,
                                      indicator |-> indicator,
                                      pc |-> "fetching",
                                      resp |-> NoResponse])
         /\ layers' = Append(layers, NoLayer)

\* loadClimateData up to its await (lines 84-93), for the render whose props
\* are boundary and indicator: nothing without a map surface; else the
\* loading flag is set, the error cleared and the fetch issued.  The reload
\* effect (lines 219-223) tests map.current too, before it calls.
StartLoad(boundary, indicator, surface) ==
    IF surface = 0
    THEN UNCHANGED << cycles, layers, isLoading, error, fetches >>
    ELSE /\ isLoading' = TRUE
         /\ error' = ""
         /\ fetches' = fetches + 1      \* getCCVIData: one fetch (line 77)
         /\ cycles' = Append(cycles, [boundary |-> boundary,
                                      indicator |-> indicator,
                                      pc |-> "fetching",
                                      resp |-> NoResponse])
         /\ layers' = Append(layers, NoLayer)

\* initializeMap without its initial load.
initializeMap_NoLoad ==
    LET made == LMap(surfaces) IN
    /\ initCalls' = initCalls + 1
    /\ UNCHANGED << cycles, layers, isLoading, error, fetches >>
    /\ IF made.threw
       THEN UNCHANGED << mapCurrent, surfaces, tileLayers, mapLayers >>
       ELSE /\ mapCurrent' = 1
            /\ surfaces' = made.live
            /\ tileLayers' = tileLayers + 1
            /\ mapLayers' = IF surfaces = 0 THEN mapLayers ELSE {}

\* initializeMap (lines 19-32) with the container in place: the map surface
\* is created, the tile layer added to it and loadClimateData run up to its
\* await; when L.map throws, nothing after it runs.
initializeMap ==
    LET made == LMap(surfaces) IN
    /\ initCalls' = initCalls + 1
    /\ IF made.threw
       THEN UNCHANGED << mapCurrent, surfaces, tileLayers, mapLayers, cycles,
                         layers, isLoading, error, fetches >>
       ELSE /\ mapCurrent' = 1
            /\ surfaces' = made.live
            /\ tileLayers' = tileLayers + 1
            /\ mapLayers' = IF surfaces = 0 THEN mapLayers ELSE {}
            /\ StartLoad(selectedBoundary, selectedIndicator, 1)

\* The mount, first effect: the reload effect (lines 219-223) runs with the
\* props of the first render.
MountReload ==
    /\ mounted = "no"
    /\ mounted' = "effects"
    /\ StartLoad(selectedBoundary, selectedIndicator, mapCurrent)
    /\ UNCHANGED << mapCurrent, surfaces, initCalls, tileLayers, mapLayers,
                    dataLayer, selectedBoundary, selectedIndicator, dataLoads,
                    fitted, sidebarBoundary, sidebarIndicator, hover,
                    apiVars, styleVars, catalogVars >>

\* The mount, second effect (lines 225-227): initializeMap.
Mount ==
    /\ mounted = "effects"
    /\ mounted' = "yes"
    /\ initializeMap
    /\ UNCHANGED << dataLayer, selectedBoundary, selectedIndicator,
                    dataLoads, fitted, sidebarBoundary, sidebarIndicator, hover,
                    apiVars, styleVars, catalogVars >>

\* initializeMap invoked once more while the component is mounted and no
\* teardown has run.  The component itself invokes it from the mount effect
\* only.
InitializeAgain ==
    /\ mounted = "yes"
    /\ initCalls < MaxInit
    /\ initializeMap
    /\ UNCHANGED << mounted, dataLayer, selectedBoundary, selectedIndicator,
                    dataLoads, fitted, sidebarBoundary, sidebarIndicator, hover,
                    apiVars, styleVars, catalogVars >>

\* Index.handleBoundaryChange that drops the selection.
handleBoundaryChange_Dropped(boundary, current) == current

\* Index.handleBoundaryChange (lines 11-14): the page's next boundary.
handleBoundaryChange(boundary, current) == boundary

\* Index.handleFilterChange (lines 16-21): the page's next indicator.
handleFilterChange(indicator, current) ==
    IF indicator # "" THEN indicator ELSE current

\* The boundary select changes to b: ClimateSidebar.handleBoundaryChange
\* (lines 47-50) sets its own state and calls Index.handleBoundaryChange;
\* the reload effect runs in the render that follows when a prop changed.
SelectBoundary(b) ==
    /\ mounted = "yes"
    /\ b # sidebarBoundary
    /\ Len(cycles) < MaxCycles
    /\ sidebarBoundary' = b
    /\ selectedBoundary' = handleBoundaryChange(b, selectedBoundary)
    /\ IF selectedBoundary' # selectedBoundary
       THEN StartLoad(selectedBoundary', selectedIndicator, mapCurrent)
       ELSE UNCHANGED << cycles, layers, isLoading, error, fetches >>
    /\ UNCHANGED << mounted, mapCurrent, surfaces, initCalls, tileLayers,
                    mapLayers, dataLayer, selectedIndicator, dataLoads, fitted,
                    sidebarIndicator, hover, apiVars, styleVars, catalogVars >>

\* The indicator select changes to i: ClimateSidebar.handleIndicatorChange
\* (lines 52-55) and Index.handleFilterChange, then the reload effect.
SelectIndicator(i) ==
    /\ mounted = "yes"
    /\ i # sidebarIndicator
    /\ Len(cycles) < MaxCycles
    /\ sidebarIndicator' = i
    /\ selectedIndicator' = handleFilterChange(i, selectedIndicator)
    /\ IF selectedIndicator' # selectedIndicator
       THEN StartLoad(selectedBoundary, selectedIndicator', mapCurrent)
       ELSE UNCHANGED << cycles, layers, isLoading, error, fetches >>
    /\ UNCHANGED << mounted, mapCurrent, surfaces, initCalls, tileLayers,
                    mapLayers, dataLayer, selectedBoundary, dataLoads, fitted,
                    sidebarBoundary, hover, apiVars, styleVars, catalogVars >>

\* getCCVIData's catch block with one more attempt after a transport error.
catchRequests_Retry(resp) == IF resp.net = "throw" THEN 1 ELSE 0

\* The network requests getCCVIData issues after its fetch was answered:
\* the catch block (ccviApi.ts lines 85-89) returns the fixture and fetches
\* nothing.
catchRequests(resp) == 0

\* The fetch of cycle c is answered and loadClimateData runs from its await
\* to its end (lines 93-175), in one uninterrupted step:
\*   - without a map surface removeLayer or addTo throws before
\*     dataLayer.current is assigned;
\*   - the previous layer is removed, then L.geoJSON builds the new one and
\*     may throw, which leaves dataLayer.current on the removed layer;
\*   - the new layer is added and assigned, then fitBounds may throw;
\*   - onDataLoad is called;
\*   - catch sets the error, finally clears the loading flag.
\* isLoading and error hold the value last given to their setters.  A layer
\* taken off the map takes its features from under the pointer.
\* The fallback of the c-th call draws from the c-th random stream.
FetchSettle(c, resp) ==
    /\ c \in 1..Len(cycles)
    /\ cycles[c].pc = "fetching"
    /\ LET result == getCCVIData(resp, c % (MaxSeed + 1))
           climateData == result.value
           cleared == IF dataLayer # 0
                      THEN removeLayer(mapLayers, dataLayer)
                      ELSE mapLayers
           ended(pc) == [cycles EXCEPT ![c].pc = pc, ![c].resp = resp]
       IN  IF result.settled = "rejected" \/ mapCurrent = 0
           THEN /\ error' = ErrorMessage
                /\ cycles' = ended("failed")
                /\ UNCHANGED << mapLayers, dataLayer, layers, dataLoads, fitted >>
           ELSE IF geoJSONThrows(climateData)
           THEN /\ mapLayers' = cleared
                /\ error' = ErrorMessage
                /\ cycles' = ended("failed")
                /\ UNCHANGED << dataLayer, layers, dataLoads, fitted >>
           ELSE /\ mapLayers' = cleared \cup {c}
                /\ dataLayer' = c
                /\ layers' = [layers EXCEPT ![c] =
                                 [cycle |-> c,
                                  boundary |-> cycles[c].boundary,
                                  indicator |-> cycles[c].indicator,
                                  data |-> climateData]]
                /\ IF Len(climateData.features) > 0 /\ ~boundsValid(climateData)
                   THEN /\ error' = ErrorMessage
                        /\ cycles' = ended("failed")
                        /\ UNCHANGED << dataLoads, fitted >>
                   ELSE /\ fitted' = IF Len(climateData.features) > 0
                                     THEN c ELSE fitted
                        /\ dataLoads' = Append(dataLoads, c)
                        /\ cycles' = ended("installed")
                        /\ UNCHANGED error
    /\ isLoading' = FALSE
    /\ fetches' = fetches + catchRequests(resp)
    /\ hover' = IF hover.cycle \in mapLayers' THEN hover ELSE NoHover
    /\ UNCHANGED << mounted, mapCurrent, surfaces, initCalls, tileLayers,
                    selectedBoundary, selectedIndicator, sidebarBoundary,
                    sidebarIndicator, apiVars, styleVars, catalogVars >>

\* The cleanup of the mount effect (lines 228-233): map.current.remove()
\* destroys the surface map.current refers to, with everything on it.
Unmount ==
    /\ mounted = "yes"
    /\ mounted' = "gone"
    /\ IF mapCurrent # 0
       THEN /\ mapCurrent' = 0
            /\ surfaces' = surfaces - 1
            /\ tileLayers' = tileLayers - 1
            /\ mapLayers' = {}
       ELSE UNCHANGED << mapCurrent, surfaces, tileLayers, mapLayers >>
    /\ hover' = NoHover
    /\ UNCHANGED << initCalls, dataLayer, layers, cycles, isLoading, error,
                    selectedBoundary, selectedIndicator, dataLoads, fitted,
                    fetches, sidebarBoundary, sidebarIndicator,
                    apiVars, styleVars, catalogVars >>

Init == MapInit /\ ApiIdle /\ StyleIdle /\ CatalogIdle

Next ==
    \/ MountReload
    \/ Mount
    \/ InitializeAgain
    \/ \E b \in SelectableBoundaries : SelectBoundary(b)
    \/ \E i \in SelectableIndicators : SelectIndicator(i)
    \/ \E c \in 1..MaxCycles, resp \in RenderResponses : FetchSettle(c, resp)
    \/ Unmount

Spec == Init /\ [][Next]_vars

\* The scheduling of the load cycles: a fetch that is pending is eventually
\* answered.
Fairness ==
    \A c \in 1..MaxCycles :
        WF_vars(\E resp \in RenderResponses : FetchSettle(c, resp))

SpecFair == Spec /\ Fairness

(***************************************************************************)
(* The pointer over the features of the layer on the map (the handlers of  *)
(* onEachFeature, lines 140-154).                                          *)
(***************************************************************************)
MaxHover == 2       \* features of a layer the pointer visits

\* layer.setStyle({ weight: 3, color: '#1f2937', fillOpacity: 0.9 })
hoverStyle(style) ==
    [style EXCEPT !.weight = 3, !.color = "#1f2937", !.fillOpacity = 90]

\* resetStyle with the style computed for the indicator now selected.
resetStyle_CurrentIndicator(layer, feature) ==
    featureStyle(feature.properties, selectedIndicator)

\* dataLayer.current.resetStyle(e.target): the style option of that layer,
\* which closes over the indicator the layer was built for, applied again.
resetStyle(layer, feature) == featureStyle(feature.properties, layer.indicator)

\* The features of layer l that are drawn as paths.
PathFeatures(l) ==
    { f \in 1..Len(layers[l].data.features) :
        /\ f <= MaxHover
        /\ layers[l].data.features[f].geometry.type \in { "Polygon", "MultiPolygon" } }

\* mouseover on feature f of the layer on the map.
PointerEnter(f) ==
    /\ mounted = "yes"
    /\ ~hover.over
    /\ \E l \in mapLayers :
          /\ f \in PathFeatures(l)
          /\ LET feature == layers[l].data.features[f]
                 shown == IF hover.cycle = l /\ hover.feature = f
                          THEN hover.style
                          ELSE featureStyle(feature.properties, layers[l].indicator)
             IN  hover' = [cycle |-> l, feature |-> f, style |-> hoverStyle(shown),
                           popup |-> TRUE, over |-> TRUE]
    /\ UNCHANGED << mounted, mapCurrent, tileLayers, mapLayers, dataLayer, layers,
                    cycles, isLoading, error, selectedBoundary, selectedIndicator,
                    dataLoads, fitted, surfaces, initCalls, fetches,
                    sidebarBoundary, sidebarIndicator, apiVars, styleVars,
                    catalogVars >>

\* mouseout on the feature the pointer is over.
PointerLeave ==
    /\ mounted = "yes"
    /\ hover.over
    /\ LET feature == layers[hover.cycle].data.features[hover.feature] IN
       hover' = [hover EXCEPT
                   !.style = IF dataLayer # 0
                             THEN resetStyle(layers[dataLayer], feature)
                             ELSE @,
                   !.popup = FALSE,
                   !.over = FALSE]
    /\ UNCHANGED << mounted, mapCurrent, tileLayers, mapLayers, dataLayer, layers,
                    cycles, isLoading, error, selectedBoundary, selectedIndicator,
                    dataLoads, fitted, surfaces, initCalls, fetches,
                    sidebarBoundary, sidebarIndicator, apiVars, styleVars,
                    catalogVars >>

NextHover ==
    \/ Next
    \/ \E f \in 1..MaxHover : PointerEnter(f)
    \/ PointerLeave

SpecHover == Init /\ [][NextHover]_vars

(***************************************************************************)
(* Properties of the load cycles, under Spec.                              *)
(***************************************************************************)
\* C1: the superseded-request guard: when cycle a was started before cycle b
\* and both have installed their layer, the layer on display is not a's:
\* the result of the earlier request is never installed over the layer of
\* the later one.
C1_LatestRequestWins ==
    \A a \in 1..Len(cycles), b \in 1..Len(cycles) :
        (a < b /\ cycles[a].pc = "installed" /\ cycles[b].pc = "installed")
            => dataLayer # a

(***************************************************************************)
(* Properties of the data provider, under SpecApi.                         *)
(***************************************************************************)
IsFulfilled == apiResult.settled = "fulfilled"

\* The answer reached transformApiData's map and every raw feature went
\* through it: the result has one feature per raw feature.
Normalized ==
    /\ IsFulfilled
    /\ apiResp.net = "ok" /\ apiResp.ok /\ apiResp.json = "ok"
    /\ apiResp.body.kind = "object"
    /\ apiResp.body.type = "FeatureCollection"
    /\ apiResp.body.features.kind = "list"
    /\ \A i \in 1..Len(RawItems) : RawItems[i].hasProperties

OutProperties(i) == apiResult.value.features[i].properties
OutScore(i) == OutProperties(i)["vulnerability_score"]

\* C2: getCCVIData never raises to its caller: whatever the transport does,
\* the promise is never rejected, and once settled it holds a feature
\* collection.
C2_NeverRaises ==
    /\ apiResult.settled # "rejected"
    /\ IsFulfilled => apiResult.value.type = "FeatureCollection"

\* C2's case: an exception thrown inside transformApiData (a feature without
\* properties) and the promise fulfilled all the same.
C2_Witness ==
    /\ IsFulfilled
    /\ apiResp.net = "ok" /\ apiResp.ok /\ apiResp.json = "ok"
    /\ apiResp.body.type = "FeatureCollection"
    /\ apiResp.body.features.kind = "list"
    /\ \E i \in 1..Len(RawItems) : ~RawItems[i].hasProperties

\* The failures C3 names: network error, non-success status, malformed
\* body, unexpected top-level shape.
C3_Failure ==
    \/ apiResp.net = "throw"
    \/ ~apiResp.ok
    \/ apiResp.json = "throw"
    \/ apiResp.body.kind # "object"
    \/ apiResp.body.type # "FeatureCollection"
    \/ apiResp.body.features.kind # "list"

FixtureNames ==
    << "Punjab", "Sindh", "Khyber Pakhtunkhwa", "Balochistan",
       "Gilgit-Baltistan", "Azad Kashmir" >>
FixtureScores == << 70, 80, 60, 90, 40, 50 >>
FixtureCenters ==
    << <<743587, 315204>>, <<688242, 258943>>, <<714696, 340151>>,
       <<669756, 283949>>, <<744641, 359042>>, <<734548, 336844>> >>

\* The closed ring of the square of half-width h around c.
SquareRing(c, h) ==
    << <<c[1] - h, c[2] - h>>, <<c[1] + h, c[2] - h>>, <<c[1] + h, c[2] + h>>,
       <<c[1] - h, c[2] + h>>, <<c[1] - h, c[2] - h>> >>

IsFixture(collection) ==
    /\ Len(collection.features) = Len(FixtureNames)
    /\ \A i \in 1..Len(FixtureNames) :
          LET f == collection.features[i] IN
          /\ f.properties["name"] = Str(FixtureNames[i])
          /\ f.properties["vulnerability_score"] = Num(FixtureScores[i])
          /\ f.geometry =
                [type |-> "Polygon",
                 coordinates |-> SquareRing(FixtureCenters[i], 15000)]

\* Two collections that differ at most in population and area.
AgreeButPopulationArea(a, b) ==
    /\ Len(a.features) = Len(b.features)
    /\ \A i \in 1..Len(a.features) :
          /\ a.features[i].geometry = b.features[i].geometry
          /\ \A k \in Keys \ {"population", "area"} :
                a.features[i].properties[k] = b.features[i].properties[k]

\* C3: on any failure the result is the fixture: six features, the fixed
\* names in the fixed order, the fixed scores, a square of half-width 1.5
\* around each fixed centre; and the result of the same call under any other
\* random stream differs from it at most in population and area.
C3_FallbackFixture ==
    (IsFulfilled /\ C3_Failure) =>
        /\ IsFixture(apiResult.value)
        /\ \A s \in Seeds :
              AgreeButPopulationArea(getCCVIData(apiResp, s).value, apiResult.value)

\* C3's case: a failed call that returned the fixture, where another random
\* stream gives another population.
C3_Witness ==
    /\ IsFulfilled
    /\ C3_Failure
    /\ \E s \in Seeds :
          getCCVIData(apiResp, s).value.features[1].properties["population"]
            # apiResult.value.features[1].properties["population"]

\* C4: every feature of every returned collection has a vulnerability score
\* that is a number of [0, 1].
C4_ScoreInUnitInterval ==
    IsFulfilled =>
        \A i \in 1..Len(apiResult.value.features) :
            /\ OutScore(i).t = "number"
            /\ 0 <= OutScore(i).n
            /\ OutScore(i).n <= One

\* The candidate score fields, in the order the claims give.
CandidateOrder ==
    << "vulnerability_score", "ccvi_score", "vulnerability", "score",
       "exposure", "sensitivity", "adaptive_capacity",
       "VULNERABILITY_SCORE", "CCVI_SCORE", "VULNERABILITY", "SCORE",
       "EXPOSURE", "SENSITIVITY", "ADAPTIVE_CAPACITY" >>

\* Field f of p is present, non-null and numeric-parseable.
Qualifies(p, f) ==
    /\ p[f].t # "undefined"
    /\ p[f].t # "null"
    /\ ~IsNaN(ParseFloat(p[f]))

HasCandidate(p) ==
    \E i \in 1..Len(CandidateOrder) : Qualifies(p, CandidateOrder[i])

FirstCandidate(p) ==
    CandidateOrder[
        CHOOSE i \in 1..Len(CandidateOrder) :
            /\ Qualifies(p, CandidateOrder[i])
            /\ \A j \in 1..(i - 1) : ~Qualifies(p, CandidateOrder[j])]

\* C5: the scale rule: when the first present, numeric-parseable candidate
\* field of a raw feature holds s, the returned feature has score s / 100 if
\* s > 1 and s if 0 <= s <= 1, whichever field carried s.
C5_ScaleRule ==
    Normalized =>
        \A i \in 1..Len(RawItems) :
            LET p == RawItems[i].properties IN
            HasCandidate(p) =>
                LET sc == ParseFloat(p[FirstCandidate(p)]) IN
                /\ sc.n > One => OutScore(i) = Num(sc.n \div 100)
                /\ (0 <= sc.n /\ sc.n <= One) => OutScore(i) = sc

\* C6: the normalization is idempotent: applied to the value it produced, it
\* gives that value again.
C6_Idempotent == Len(norm) >= 2 => norm[2] = norm[1]

\* C7: field-name priority: the score of a normalized feature is derived
\* from (is the value of, or that value parsed, or parsed and scaled) the
\* first candidate field that is present, non-null and numeric-parseable;
\* fields after it, and fields before it that do not qualify, play no part.
C7_FieldPriority ==
    Normalized =>
        \A i \in 1..Len(RawItems) :
            LET p == RawItems[i].properties IN
            HasCandidate(p) =>
                LET raw == p[FirstCandidate(p)]
                    sc  == ParseFloat(raw)
                IN  OutScore(i) \in { raw, sc, Num(sc.n \div 100) }

\* C8: the end-to-end scenario: the answer {ID: 'r1', NAME: 'Test Region',
\* SCORE: 75} with a Polygon yields exactly one feature, with id 'r1', name
\* 'Test Region' and score 0.75.
C8_EndToEnd ==
    (IsFulfilled /\ apiResp = e2eResponse) =>
        /\ Len(apiResult.value.features) = 1
        /\ OutProperties(1)["id"] = Str("r1")
        /\ OutProperties(1)["name"] = Str("Test Region")
        /\ OutScore(1) = Num(75)

\* C8's case: the scenario's call has settled.
C8_Witness == IsFulfilled /\ apiResp = e2eResponse

(***************************************************************************)
(* Properties of the style function, under SpecStyle.                      *)
(***************************************************************************)
IsStyled == styleOut # NoStyle

\* The indicator value as C9 gives it.
C9_Expected(p, indicator) ==
    CASE indicator = "adaptive_capacity" ->
            IF p["adaptive_capacity"].t # "undefined"
            THEN p["adaptive_capacity"]
            ELSE OneMinus(p["vulnerability_score"])
      [] indicator \in {"exposure", "sensitivity"} ->
            IF p[indicator].t # "undefined"
            THEN p[indicator]
            ELSE p["vulnerability_score"]
      [] OTHER -> p["vulnerability_score"]

\* C9: the indicator value of a feature with a vulnerability score of [0, 1]:
\* the indicator's own field whenever it is present (0 included), else
\* 1 - score for adaptive_capacity and the score for exposure and
\* sensitivity; the score for every other indicator.
C9_IndicatorValue ==
    (/\ IsStyled
     /\ styleProps["vulnerability_score"].t = "number"
     /\ 0 <= styleProps["vulnerability_score"].n
     /\ styleProps["vulnerability_score"].n <= One) =>
        styleOut.indicatorValue = C9_Expected(styleProps, styleIndicator)

\* The bucket of a value when a boundary value belongs to the lower bucket:
\* one more than the number of boundaries strictly below it.
LowerBucket(n) == 1 + Cardinality({ b \in {20, 40, 60, 80} : n > b })

ProbeValues == { Num(i * 5) : i \in 0..20 }

\* C10: for every indicator the colour is a 5-bucket step function with
\* boundaries 0.2, 0.4, 0.6, 0.8, a boundary value in the lower bucket: two
\* values have the same colour exactly when they are in the same bucket.
C10_ColourBuckets ==
    (IsStyled /\ styleOut.indicatorValue.t = "number") =>
        \A w \in ProbeValues :
            (LowerBucket(w.n) = LowerBucket(styleOut.indicatorValue.n))
              <=> (getColorForIndicator(w, styleIndicator) = styleOut.fillColor)

\* C10's case: a feature whose indicator value is exactly a boundary has
\* been styled.
C10_Witness ==
    /\ IsStyled
    /\ styleOut.indicatorValue \in { Num(20), Num(40), Num(60), Num(80) }
    /\ styleIndicator = "adaptive_capacity"

(***************************************************************************)
(* Properties of the load cycles (continued), under Spec and SpecFair.     *)
(***************************************************************************)
\* The step in which the fetch of cycle c is answered and the cycle ends.
Ends(c, pc) == cycles[c].pc = "fetching" /\ cycles'[c].pc = pc

\* C11: a rendering failure keeps the map: when a cycle ends in the error
\* state on a live map surface, the error message is set and a map that
\* showed a data layer before the cycle's end still shows one after it.
C11_RenderFailureKeepsMap ==
    [][\A c \in 1..Len(cycles) :
          (Ends(c, "failed") /\ mapCurrent # 0)
              => /\ error' = ErrorMessage
                 /\ mapLayers # {} => mapLayers' # {}]_vars

\* How many times cycle c called onDataLoad, in a list of the calls.
Calls(loads, c) == Cardinality({ i \in 1..Len(loads) : loads[i] = c })

\* C12: onDataLoad is invoked exactly once by a cycle that ends by
\* installing its layer while it is the latest cycle started, and not at all
\* otherwise: not by a cycle that ends in the error state, not by a cycle
\* that a later request superseded before its fetch was answered.
C12_OnDataLoadOnce ==
    [][\A c \in 1..Len(cycles) :
          IF Ends(c, "installed") /\ c = Len(cycles)
          THEN Calls(dataLoads, c) = 0 /\ Calls(dataLoads', c) = 1
          ELSE Calls(dataLoads', c) = Calls(dataLoads, c)]_vars

\* The failures of the features request C13 names: transport, non-success
\* status, a body that is no JSON or not of the expected shape.
FetchFailed(resp) ==
    \/ resp.net = "throw"
    \/ ~resp.ok
    \/ resp.json = "throw"
    \/ resp.body.kind # "object"
    \/ resp.body.type # "FeatureCollection"
    \/ resp.body.features.kind # "list"

C18_OneDataLayer == Cardinality(mapLayers) <= 1

\* C18's case: a second cycle has installed its layer over the first one's.
C18_Witness ==
    /\ Len(dataLoads) >= 2
    /\ dataLoads[1] # dataLoads[2]
    /\ Cardinality(mapLayers) = 1

\* C19: a cycle that starts sets isLoading and clears the error before it
\* fetches; the step that ends a cycle clears isLoading, whether the cycle
\* installed its layer or failed; and a cycle whose fetch is pending
\* eventually ends.
C19_LoadingState ==
    /\ [][/\ Len(cycles') > Len(cycles) => (isLoading' /\ error' = "")
          /\ \A c \in 1..Len(cycles) :
                (cycles[c].pc = "fetching" /\ cycles'[c].pc # "fetching")
                    => ~isLoading']_vars
    /\ \A c \in 1..MaxCycles :
          (c <= Len(cycles) /\ cycles[c].pc = "fetching")
              ~> (c <= Len(cycles) /\ cycles[c].pc # "fetching")

\* C19's case: one cycle has ended in the error state, another by
\* installing its layer, and the loading flag is down.
C19_Witness ==
    /\ \E c \in 1..Len(cycles) : cycles[c].pc = "failed"
    /\ \E c \in 1..Len(cycles) : cycles[c].pc = "installed"
    /\ ~isLoading

CatalogRequestFailed(resp) ==
    resp.net = "throw" \/ ~resp.ok \/ resp.json = "throw"

\* C14: getBoundaryTypes never rejects, and on a failed request it returns
\* the built-in catalog district, tehsil, union_council, in that order.
C14_BoundariesFailSoft ==
    /\ boundariesResult.settled # "rejected"
    /\ (boundariesResult.settled = "fulfilled" /\ CatalogRequestFailed(boundariesResp))
          => boundariesResult.value =
                Catalog("list", << "district", "tehsil", "union_council" >>)

\* C14's case: the body failed to parse and the promise is fulfilled.
C14_Witness ==
    /\ boundariesResult.settled = "fulfilled"
    /\ boundariesResp.net = "ok" /\ boundariesResp.ok
    /\ boundariesResp.json = "throw"

Polygonal(g) == g.type \in { "Polygon", "MultiPolygon" } /\ g.coordinates # << >>

\* C16: the geometry filter: every feature getCCVIData returns has a
\* non-empty Polygon or MultiPolygon geometry, and of the raw features
\* exactly those with such a geometry are in the result.
C16_GeometryFilter ==
    IsFulfilled =>
        /\ \A i \in 1..Len(apiResult.value.features) :
              Polygonal(apiResult.value.features[i].geometry)
        /\ Normalized =>
              Len(apiResult.value.features) =
                 Cardinality({ i \in 1..Len(RawItems) : Polygonal(RawItems[i].geometry) })

\* A raw value that is present and not null.
Present(v) == v.t \notin { "undefined", "null" }

\* C17: the identity rule: the id of a normalized feature is the first of
\* the raw id, ID that is present and not null; with neither, a placeholder;
\* and it is never null or undefined.
C17_IdentityRule ==
    Normalized =>
        \A i \in 1..Len(RawItems) :
            LET p == RawItems[i].properties
                id == OutProperties(i)["id"]
            IN  /\ Present(id)
                /\ Present(p["id"]) => id = p["id"]
                /\ (~Present(p["id"]) /\ Present(p["ID"])) => id = p["ID"]
                /\ (~Present(p["id"]) /\ ~Present(p["ID"])) => id.s = "feature_"

(***************************************************************************)
(* Properties of the style function (continued), under SpecStyle.          *)
(***************************************************************************)
\* C30: the legend agrees with the colour function: for a value strictly
\* inside the r-th of the ranges 0-20%, 20-40%, 40-60%, 60-80%, 80-100%,
\* the colour of the styled feature is the colour of the r-th legend entry
\* of the same indicator.
C30_LegendAgrees ==
    (IsStyled /\ styleOut.indicatorValue.t = "number") =>
        /\ Len(currentLegend) = 5
        /\ \A r \in 1..5 :
              (20 * (r - 1) < styleOut.indicatorValue.n
                 /\ styleOut.indicatorValue.n < 20 * r)
                  => currentLegend[r].color = styleOut.fillColor

\* C30's case: a feature styled for adaptive_capacity from its vulnerability
\* score, with a value inside the range 60-80%.
C30_Witness ==
    /\ IsStyled
    /\ styleIndicator = "adaptive_capacity"
    /\ styleOut.indicatorValue = Num(70)
    /\ currentLegend # << >>

(***************************************************************************)
(* Properties of the data provider (continued), under SpecApi.             *)
(***************************************************************************)
\* The fields the normalization recognizes.
RecognizedFields ==
    { "id", "ID", "name", "NAME", "DISTRICT", "population", "POPULATION",
      "area", "AREA" } \cup Range(possibleFields)

\* C24: pass-through of extra properties: a property of a raw feature that
\* is none of the recognized fields is on the normalized feature under its
\* key with its value (and an absent one stays absent), and every raw
\* feature has its normalized feature.
C24_PassThrough ==
    Normalized =>
        /\ Len(apiResult.value.features) = Len(RawItems)
        /\ \A i \in 1..Len(RawItems) :
              \A k \in Keys \ RecognizedFields :
                  OutProperties(i)[k] = RawItems[i].properties[k]

\* C24's case: a raw feature with the unrecognized property code = 'r1'
\* has been normalized.
C24_Witness ==
    /\ Normalized
    /\ Len(RawItems) >= 1
    /\ RawItems[1].properties["code"] = Str("r1")
    /\ Keys \ RecognizedFields # {}

(***************************************************************************)
(* Properties of the load cycles (continued), under Spec, and of the       *)
(* pointer handlers, under SpecHover.                                      *)
(***************************************************************************)
\* C21: teardown releases the map surface and the data layer: once the
\* cleanup has run, map.current and dataLayer.current are both null.
C21_TeardownReleases ==
    mounted = "gone" => (mapCurrent = 0 /\ dataLayer = 0)

C23_NoRetry ==
    /\ [](fetches = Len(cycles))
    /\ [][fetches' # fetches =>
            /\ fetches' = fetches + 1
            /\ Len(cycles') = Len(cycles) + 1
            /\ \/ (mounted = "effects" /\ mounted' = "yes")
               \/ selectedBoundary' # selectedBoundary
               \/ selectedIndicator' # selectedIndicator]_vars

\* C23's case: a cycle whose request failed in transport has ended.
C23_Witness ==
    /\ \E c \in 1..Len(cycles) :
          cycles[c].pc # "fetching" /\ cycles[c].resp.net = "throw"
    /\ fetches = Len(cycles)

\* C25: the viewport fit: a cycle that installs its layer fits the
\* viewport to it exactly when its collection has a feature; with an empty
\* collection the layer is swapped and onDataLoad called, and the viewport
\* stays where it was.
C25_ViewportFit ==
    [][\A c \in 1..Len(cycles) :
          (cycles[c].pc = "fetching" /\ cycles'[c].pc # "fetching" /\ dataLayer' = c)
              => IF Len(layers'[c].data.features) > 0
                 THEN fitted' = c
                 ELSE /\ fitted' = fitted
                      /\ mapLayers' = {c}
                      /\ Calls(dataLoads', c) = Calls(dataLoads, c) + 1]_vars

\* C26: isLoading is true in every state in which a load cycle has started
\* and not finished.
C26_LoadingWhileInFlight ==
    (\E c \in 1..Len(cycles) : cycles[c].pc = "fetching") => isLoading

\* C27: a cycle whose fetch is answered after teardown is discarded
\* silently: no layer installed, onDataLoad not called, error not set.
C27_DiscardAfterTeardown ==
    [][\A c \in 1..Len(cycles) :
          (cycles[c].pc = "fetching" /\ cycles'[c].pc # "fetching" /\ mounted = "gone")
              => /\ mapLayers' = mapLayers
                 /\ dataLayer' = dataLayer
                 /\ dataLoads' = dataLoads
                 /\ error' = error]_vars

C29_MountStartsOneCycle ==
    /\ [](mounted \in { "no", "effects" } =>
             /\ cycles = << >>
             /\ fetches = 0
             /\ ~isLoading
             /\ mapCurrent = 0)
    /\ [][(mounted = "effects" /\ mounted' = "yes") =>
             /\ mapCurrent' = 1
             /\ surfaces' = 1
             /\ tileLayers' = 1
             /\ Len(cycles') = 1
             /\ cycles'[1].pc = "fetching"
             /\ fetches' = 1]_vars

\* C29's case: the mount has run and its one cycle is in flight.
C29_Witness ==
    /\ mounted = "yes"
    /\ Len(cycles) = 1
    /\ cycles[1].pc = "fetching"
    /\ isLoading

====
